---- MODULE Spec2Model ----
(***************************************************************************)
(* Model of typst-project: the heuristic project-root resolver             *)
(* (src/heuristics.rs, src/lib.rs), manifest discovery (src/manifest.rs)   *)
(* and the constrained string grammars of the manifest.                    *)
(*                                                                         *)
(* The filesystem is the environment.  fs is the part of it the program    *)
(* has read so far: a directory enters fs when the program lists it, with  *)
(* the entries the program took from the listing (fs::read_dir is an       *)
(* iterator: the entries after the one at which a loop stops are never     *)
(* read), and never changes afterwards: the program only reads.            *)
(***************************************************************************)
EXTENDS Integers, Sequences, FiniteSets, TLC

\* ------------------------------------------------------------------------
\* Bounds
\* ------------------------------------------------------------------------

\* Longest start path, in components.
MaxDepth == 1

\* Most directory entries one call reads, over all the directories it lists.
MaxEntries == 3

\* Longest text given to a parser.
MaxLen == 4

\* ------------------------------------------------------------------------
\* Generic values: Option and io::Result
\* ------------------------------------------------------------------------

None == [some |-> FALSE]

Some(v) == [some |-> TRUE, v |-> v]

Ok(v) == [tag |-> "Ok", val |-> v]

\* An io::Error, identified by the call that produced it.
IoErr(call, p) == [tag |-> "Err", call |-> call, at |-> p]

\* ------------------------------------------------------------------------
\* Heuristic registry and bit-flag set (src/heuristics.rs 4-83)
\* A Heuristics value is the set of the bit positions that are set.
\* ------------------------------------------------------------------------

MANIFEST_FILE_NAME == "typst.toml"

MainFile(src) == [kind |-> "MainFile", src |-> src]

LibFile(src) == [kind |-> "LibFile", src |-> src]

ManifestFile == [kind |-> "ManifestFile", src |-> FALSE]

Heuristic == {MainFile(FALSE), MainFile(TRUE), LibFile(FALSE), LibFile(TRUE), ManifestFile}

\* const MAIN_FILE = 1 << 0
MAIN_FILE == {0}

\* const LIB_FILE = 1 << 0
LIB_FILE == {0}

\* const SRC_FOLDER = 1 << 1
SRC_FOLDER == {1}

\* const MANIFEST_FILE = 1 << 2
MANIFEST_FILE == {2}

\* RECOMMENDED, were it every flag.
RecommendedAll == {0, 1, 2}

\* const RECOMMENDED = Self::MANIFEST_FILE.bits()   (default features)
RECOMMENDED == MANIFEST_FILE

\* Heuristics::all(): the union of the named flags.
AllFlags == MAIN_FILE \cup LIB_FILE \cup SRC_FOLDER \cup MANIFEST_FILE

\* Every value of the type Heuristics.
Heuristics == SUBSET AllFlags

Contains(a, b) == b \subseteq a

\* impl From<Heuristic> for Heuristics
Into(h) ==
    CASE h = MainFile(FALSE) -> MAIN_FILE
      [] h = LibFile(FALSE) -> LIB_FILE
      [] h = MainFile(TRUE) -> MAIN_FILE \cup SRC_FOLDER
      [] h = LibFile(TRUE) -> LIB_FILE \cup SRC_FOLDER
      [] h = ManifestFile -> MANIFEST_FILE

\* ROOT_FILES, in table order.
ROOT_FILES ==
    << [f |-> "main.typ", h |-> MainFile(FALSE)],
       [f |-> "lib.typ", h |-> LibFile(FALSE)],
       [f |-> MANIFEST_FILE_NAME, h |-> ManifestFile] >>

\* ------------------------------------------------------------------------
\* Paths and the filesystem
\* ------------------------------------------------------------------------

\* A path is its sequence of components; whether it is absolute is a
\* property of the call (abs).  The components of a start path are all named
\* "d": their names play no role as long as none of them is "src".
StartPaths == UNION {[1..n -> {"d"}] : n \in 0..MaxDepth}

\* Ancestors, were the walk to end at the parent of the literal path, "..",
\* instead of its empty prefix.
AncestorsBeyond(p) ==
    [k \in 1..(Len(p) + 1) |-> IF k = Len(p) + 1 THEN <<"..">> ELSE SubSeq(p, 1, Len(p) + 1 - k)]

\* Path::ancestors(): the path itself, then each parent, nearest first.  The
\* last one is "/" for an absolute path and the empty path "" for a
\* relative one.
Ancestors(p) == [k \in 1..(Len(p) + 1) |-> SubSeq(p, 1, Len(p) + 1 - k)]

\* Path::join
Join(p, name) == Append(p, name)

\* DirEntry::path()
EntryPath(dir, entry) == Join(dir, entry.name)

Entry(name, typ) == [name |-> name, typ |-> typ]

\* What a directory of the ancestor chain may hold.  typ "err" is an entry
\* whose file_type() lookup fails.
RootEntries ==
    { Entry("typst.toml", "file"), Entry("typst.toml", "symlink"),
      Entry("main.typ", "file"), Entry("lib.typ", "file"),
      Entry("src", "dir"), Entry("x", "err") }

\* What a directory listed by the src branch may hold.
SrcEntries ==
    { Entry("main.typ", "file"), Entry("lib.typ", "file"), Entry("notes.typ", "file"),
      Entry("sub", "dir"), Entry("x", "err") }

DistinctNames(ls) == \A i, j \in 1..Len(ls) : i # j => ls[i].name # ls[j].name

\* The listings of at most n entries over a set of entries: a directory holds
\* a name once, and lists its entries in an arbitrary order.
Listings(entries, n) ==
    {ls \in UNION {[1..k -> entries] : k \in 0..n} : DistinctNames(ls)}

Unreadable == [ok |-> FALSE, ls |-> <<>>]

Readable(ls) == [ok |-> TRUE, ls |-> ls]

\* What fs::read_dir(p) can give, n entries at most.  The empty relative path
\* names no directory: fs::read_dir("") fails.
DirContents(abs, p, entries, n) ==
    IF ~abs /\ p = <<>> THEN {Unreadable}
    ELSE {Unreadable} \cup {Readable(ls) : ls \in Listings(entries, n)}

\* ------------------------------------------------------------------------
\* project_root and potential_root_dir_entry (src/heuristics.rs 172-236)
\* Every operator returns the result r together with reads, the paths it
\* passed to fs::read_dir in call order, and hits, the Heuristic values
\* potential_root_dir_entry returned.
\* ------------------------------------------------------------------------

\* ROOT_FILES.iter().copied().filter(..contains(h.into())).find_map(name == f)
RECURSIVE FindRootFile(_, _, _)
FindRootFile(name, heuristics, k) ==
    IF k > Len(ROOT_FILES) THEN None
    ELSE IF Contains(heuristics, Into(ROOT_FILES[k].h)) /\ name = ROOT_FILES[k].f
         THEN Some(ROOT_FILES[k].h)
         ELSE FindRootFile(name, heuristics, k + 1)

\* The loop over the entries of the nested directory q (lines 205-221).
RECURSIVE SrcLoop(_, _, _)
SrcLoop(q, ls, k) ==
    IF k > Len(ls) THEN Ok(None)
    ELSE IF ls[k].typ = "err" THEN IoErr("file_type", Join(q, ls[k].name))
    ELSE IF ls[k].typ # "file" THEN Ok(None)
    ELSE IF ls[k].name = "main.typ" THEN Ok(Some(MainFile(TRUE)))
    ELSE IF ls[k].name = "lib.typ" THEN Ok(Some(LibFile(TRUE)))
    ELSE SrcLoop(q, ls, k + 1)

\* The directory the src branch lists: entry.path().join("src").
SrcDir(dir, entry) == Join(EntryPath(dir, entry), "src")

\* PotentialRootDirEntry without the is_file test of line 227.
PotentialRootDirEntryAnyType(f, dir, entry, heuristics) ==
    IF entry.typ = "err"
    THEN [r |-> IoErr("file_type", EntryPath(dir, entry)), reads |-> <<>>]
    ELSE IF entry.typ = "dir"
    THEN IF Contains(heuristics, SRC_FOLDER) /\ entry.name = "src"
         THEN LET q == SrcDir(dir, entry) IN
              [r |-> IF f[q].ok THEN SrcLoop(q, f[q].ls, 1) ELSE IoErr("read_dir", q),
               reads |-> <<q>>]
         ELSE [r |-> Ok(None), reads |-> <<>>]
    ELSE [r |-> Ok(FindRootFile(entry.name, heuristics, 1)), reads |-> <<>>]

PotentialRootDirEntry(f, dir, entry, heuristics) ==
    IF entry.typ = "err"
    THEN [r |-> IoErr("file_type", EntryPath(dir, entry)), reads |-> <<>>]
    ELSE IF entry.typ = "dir"
    THEN IF Contains(heuristics, SRC_FOLDER) /\ entry.name = "src"
         THEN LET q == SrcDir(dir, entry) IN
              [r |-> IF f[q].ok THEN SrcLoop(q, f[q].ls, 1) ELSE IoErr("read_dir", q),
               reads |-> <<q>>]
         ELSE [r |-> Ok(None), reads |-> <<>>]
    ELSE IF entry.typ # "file"
    THEN [r |-> Ok(None), reads |-> <<>>]
    ELSE [r |-> Ok(FindRootFile(entry.name, heuristics, 1)), reads |-> <<>>]

\* The loop of project_root::inner over the listing of path (lines 180-188),
\* at entry k with res accumulated so far.
RECURSIVE InnerLoop(_, _, _, _, _, _, _, _)
InnerLoop(f, path, heuristics, first, k, res, reads, hits) ==
    IF k > Len(f[path].ls)
    THEN [r |-> Ok(res), reads |-> reads, hits |-> hits]
    ELSE LET e == PotentialRootDirEntry(f, path, f[path].ls[k], heuristics)
             rd == reads \o e.reads
         IN  IF e.r.tag = "Err"
             THEN [r |-> e.r, reads |-> rd, hits |-> hits]
             ELSE IF e.r.val.some
             THEN LET res2 == res \cup Into(e.r.val.v)
                      hs == Append(hits, e.r.val.v)
                  IN  IF first \/ res2 = heuristics
                      THEN [r |-> Ok(res2), reads |-> rd, hits |-> hs]
                      ELSE InnerLoop(f, path, heuristics, first, k + 1, res2, rd, hs)
             ELSE InnerLoop(f, path, heuristics, first, k + 1, res, rd, hits)

\* ProjectRoot, were a scan without early exit to report nothing unless it
\* matched all of wanted.
ProjectRootAllOrNothing(f, path, heuristics, first) ==
    LET scanned == IF ~f[path].ok
                   THEN [r |-> IoErr("read_dir", path), reads |-> <<path>>, hits |-> <<>>]
                   ELSE InnerLoop(f, path, heuristics, first, 1, {}, <<path>>, <<>>)
    IN  IF ~first /\ scanned.r.tag = "Ok" /\ scanned.r.val # heuristics
        THEN [scanned EXCEPT !.r = Ok({})]
        ELSE scanned

\* ProjectRoot, were the loop to stop at the first match whatever first is.
ProjectRootFirstOnly(f, path, heuristics, first) ==
    IF ~f[path].ok
    THEN [r |-> IoErr("read_dir", path), reads |-> <<path>>, hits |-> <<>>]
    ELSE InnerLoop(f, path, heuristics, TRUE, 1, {}, <<path>>, <<>>)

ProjectRoot(f, path, heuristics, first) ==
    IF ~f[path].ok
    THEN [r |-> IoErr("read_dir", path), reads |-> <<path>>, hits |-> <<>>]
    ELSE InnerLoop(f, path, heuristics, first, 1, {}, <<path>>, <<>>)

\* ------------------------------------------------------------------------
\* State
\* ------------------------------------------------------------------------

VARIABLES
    pc,          \* "idle", "walk", "scan", "ret", "done"
    op,          \* the public entry point that was called
    abs,         \* whether the start path is absolute
    path,        \* the start path
    heuristics,  \* the wanted set passed to the heuristics module
    first,       \* the early-exit flag (any / first)
    idx,         \* position of the walk in Ancestors(path)
    fs,          \* the directories observed so far: path -> content
    reads,       \* the paths passed to fs::read_dir, in call order
    hits,        \* per project_root call, the Heuristic values it matched
    files,       \* the paths passed to fs::read_to_string and what was got
    hres,        \* what the function of the heuristics module returned
    result,      \* what the entry point returned
    input,       \* the text given to a parser
    output,      \* what the parser returned
    shown,       \* the Display form of the value the parser returned
    again        \* what parsing the Display form returned

vars == <<pc, op, abs, path, heuristics, first, idx, fs, reads, hits, files, hres, result,
          input, output, shown, again>>

\* The state of the parsers.
parser == <<input, output, shown, again>>

\* The state of the root resolver.
resolver == <<pc, op, abs, path, heuristics, first, idx, fs, reads, hits, files, hres, result>>

Pending == [tag |-> "Pending"]

Init ==
    /\ pc = "idle"
    /\ op = "none"
    /\ abs = TRUE
    /\ path = <<>>
    /\ heuristics = {}
    /\ first = FALSE
    /\ idx = 1
    /\ fs = <<>>
    /\ reads = <<>>
    /\ hits = <<>>
    /\ files = <<>>
    /\ hres = Pending
    /\ result = Pending
    /\ input = <<>>
    /\ output = Pending
    /\ shown = <<>>
    /\ again = Pending

\* ------------------------------------------------------------------------
\* Entry points
\* ------------------------------------------------------------------------

Enter(name, next, a, p, h, f) ==
    /\ pc = "idle"
    /\ pc' = next
    /\ op' = name
    /\ abs' = a
    /\ path' = p
    /\ heuristics' = h
    /\ first' = f
    /\ UNCHANGED <<idx, fs, reads, hits, files, hres, result, parser>>

\* heuristics::try_find_project_root(path, heuristics, any)
HeurTryFindProjectRoot ==
    \E a \in BOOLEAN, p \in StartPaths, h \in Heuristics, any \in BOOLEAN :
        Enter("heuristics::try_find_project_root", "walk", a, p, h, any)

\* heuristics::project_root(path, heuristics, first)
HeurProjectRoot ==
    \E a \in BOOLEAN, p \in StartPaths, h \in Heuristics, f \in BOOLEAN :
        Enter("heuristics::project_root", "scan", a, p, h, f)

\* heuristics::is_project_root(path, heuristics): project_root(path, heuristics, true)
HeurIsProjectRoot ==
    \E a \in BOOLEAN, p \in StartPaths, h \in Heuristics :
        Enter("heuristics::is_project_root", "scan", a, p, h, TRUE)

\* lib try_find_project_root(path):
\* heuristics::try_find_project_root(path, Heuristics::RECOMMENDED, true)
LibTryFindProjectRoot ==
    \E a \in BOOLEAN, p \in StartPaths :
        Enter("try_find_project_root", "walk", a, p, RECOMMENDED, TRUE)

\* lib is_project_root(path): heuristics::is_project_root(path, RECOMMENDED)
LibIsProjectRoot ==
    \E a \in BOOLEAN, p \in StartPaths :
        Enter("is_project_root", "scan", a, p, RECOMMENDED, TRUE)

\* Manifest::try_find(path):
\* heuristics::try_find_project_root(path, Heuristics::MANIFEST_FILE, true)
ManifestTryFind ==
    \E a \in BOOLEAN, p \in StartPaths :
        Enter("Manifest::try_find", "walk", a, p, MANIFEST_FILE, TRUE)

\* ------------------------------------------------------------------------
\* The filesystem answers
\* ------------------------------------------------------------------------

HasSrcDir(c) == c.ok /\ \E k \in 1..Len(c.ls) : c.ls[k] = Entry("src", "dir")

\* The number of entries read so far.
RECURSIVE EntriesIn(_, _)
EntriesIn(f, dirs) ==
    IF dirs = {} THEN 0
    ELSE LET p == CHOOSE x \in dirs : TRUE IN Len(f[p].ls) + EntriesIn(f, dirs \ {p})

EntriesRead(f) == EntriesIn(f, DOMAIN f)

Front(ls) == SubSeq(ls, 1, Len(ls) - 1)

\* An entry that stands for "the iterator is asked for one more entry": the
\* lookup of its type fails, which no loop survives.
Probe == Entry("?", "err")

\* The loops of project_root(d, h, fst) take every entry of the listings in
\* g: with the last entry of a listing replaced by the probe, the loop over
\* that listing gets as far as the probe.
ReadToTheEnd(g, d, h, fst) ==
    LET q == SrcDir(d, Entry("src", "dir")) IN
    /\ (g[d].ok /\ g[d].ls # <<>>) =>
           ProjectRoot([g EXCEPT ![d] = Readable(Append(Front(g[d].ls), Probe))], d, h, fst).r
              = IoErr("file_type", EntryPath(d, Probe))
    /\ (q \in DOMAIN g /\ g[q].ok /\ g[q].ls # <<>>) =>
           SrcLoop(q, Append(Front(g[q].ls), Probe), 1) = IoErr("file_type", EntryPath(q, Probe))

\* The filesystems that extend f by what project_root(d, h, fst) reads: d
\* itself and, when the src branch is taken, the directory that branch
\* lists.
Observe(f, a, d, h, fst) ==
    LET q == SrcDir(d, Entry("src", "dir"))
        left == MaxEntries - EntriesRead(f)
        D == DirContents(a, d, RootEntries, left)
        Plain == {c \in D : ~(HasSrcDir(c) /\ Contains(h, SRC_FOLDER))}
        Nested == {c \in D : HasSrcDir(c) /\ Contains(h, SRC_FOLDER)}
        G == {f @@ (d :> c) : c \in Plain}
             \cup
             UNION { {f @@ (d :> c) @@ (q :> c2) :
                        c2 \in DirContents(TRUE, q, SrcEntries, left - Len(c.ls))} :
                     c \in Nested }
    IN  {g \in G : ReadToTheEnd(g, d, h, fst)}

\* ------------------------------------------------------------------------
\* heuristics::try_find_project_root (src/heuristics.rs 115-128)
\* ------------------------------------------------------------------------

\* Iteration, were the loop to stop only at a directory that matches all of
\* wanted.
IterationUntilAll(ancestor, returned, wanted) ==
    IF returned.tag = "Err"
    THEN [stop |-> TRUE, ret |-> returned]
    ELSE IF returned.val = wanted
    THEN [stop |-> TRUE, ret |-> Ok(Some([root |-> ancestor, matched |-> returned.val]))]
    ELSE [stop |-> FALSE, ret |-> Ok(None)]

\* Iteration, were the loop to skip a directory it cannot list.
IterationSkipsErrors(ancestor, returned, wanted) ==
    IF returned.tag = "Ok" /\ returned.val # {}
    THEN [stop |-> TRUE, ret |-> Ok(Some([root |-> ancestor, matched |-> returned.val]))]
    ELSE [stop |-> FALSE, ret |-> Ok(None)]

\* What one iteration of the loop makes of project_root's result for the
\* ancestor (lines 121-124): the ? returns the error, a non-empty set returns
\* the ancestor with it, an empty set goes on to the next ancestor.
Iteration(ancestor, returned, wanted) ==
    IF returned.tag = "Err"
    THEN [stop |-> TRUE, ret |-> returned]
    ELSE IF returned.val # {}
    THEN [stop |-> TRUE, ret |-> Ok(Some([root |-> ancestor, matched |-> returned.val]))]
    ELSE [stop |-> FALSE, ret |-> Ok(None)]

\* One iteration of the loop over path.ancestors() (lines 120-125).
Examine ==
    /\ pc = "walk"
    /\ idx <= Len(Ancestors(path))
    /\ LET ancestor == Ancestors(path)[idx] IN
       \E f \in Observe(fs, abs, ancestor, heuristics, first) :
          LET returned == ProjectRoot(f, ancestor, heuristics, first)
              it == Iteration(ancestor, returned.r, heuristics)
          IN  /\ fs' = f
              /\ reads' = reads \o returned.reads
              /\ hits' = Append(hits, returned.hits)
              /\ IF it.stop
                 THEN /\ hres' = it.ret
                      /\ pc' = "ret"
                      /\ idx' = idx
                 ELSE /\ hres' = hres
                      /\ pc' = pc
                      /\ idx' = idx + 1
    /\ UNCHANGED <<op, abs, path, heuristics, first, files, result, parser>>

\* The ancestors are exhausted: Ok(None) (line 127).
Exhausted ==
    /\ pc = "walk"
    /\ idx > Len(Ancestors(path))
    /\ hres' = Ok(None)
    /\ pc' = "ret"
    /\ UNCHANGED <<op, abs, path, heuristics, first, idx, fs, reads, hits, files, result, parser>>

\* project_root(path, heuristics, first) called on the path itself.
Scan ==
    /\ pc = "scan"
    /\ \E f \in Observe(fs, abs, path, heuristics, first) :
          LET returned == ProjectRoot(f, path, heuristics, first) IN
          /\ fs' = f
          /\ reads' = reads \o returned.reads
          /\ hits' = Append(hits, returned.hits)
          /\ hres' = returned.r
    /\ pc' = "ret"
    /\ UNCHANGED <<op, abs, path, heuristics, first, idx, files, result, parser>>

\* ------------------------------------------------------------------------
\* Returns of the entry points
\* ------------------------------------------------------------------------

Return(r) ==
    /\ result' = r
    /\ pc' = "done"
    /\ UNCHANGED <<op, abs, path, heuristics, first, idx, fs, reads, hits, files, hres, parser>>

\* .map(|hs| !hs.is_empty())   (src/heuristics.rs 149)
NonEmpty(r) == IF r.tag = "Ok" THEN Ok(r.val # {}) ELSE r

\* .map(|r| r.map(|(p, _)| p))   (src/lib.rs 34)
RootOnly(r) ==
    IF r.tag = "Ok" /\ r.val.some THEN Ok(Some(r.val.v.root)) ELSE r

\* The functions of the heuristics module return what they computed.
ReturnHeuristics ==
    /\ pc = "ret"
    /\ op \in {"heuristics::try_find_project_root", "heuristics::project_root"}
    /\ Return(hres)

ReturnHeurIsProjectRoot ==
    /\ pc = "ret"
    /\ op = "heuristics::is_project_root"
    /\ Return(NonEmpty(hres))

ReturnLibTryFindProjectRoot ==
    /\ pc = "ret"
    /\ op = "try_find_project_root"
    /\ Return(RootOnly(hres))

ReturnLibIsProjectRoot ==
    /\ pc = "ret"
    /\ op = "is_project_root"
    /\ Return(NonEmpty(hres))

\* ------------------------------------------------------------------------
\* Manifest::try_find (src/manifest.rs 83-93)
\* ------------------------------------------------------------------------

\* impl_from!(io::Error => Io)
ErrorIo(e) == [tag |-> "Err", kind |-> "Io", source |-> e]

\* impl_from!(DeserializeError => De)
ErrorDe(file) == [tag |-> "Err", kind |-> "De", source |-> file]

\* What fs::read_to_string followed by Manifest::from_str can meet: the file
\* cannot be read (it may have disappeared since the walk saw it), its text
\* is not a manifest, or it is one.
FileOutcomes == {"unreadable", "malformed", "manifest"}

\* The walk failed: the ? of line 85 converts the io::Error.
ManifestWalkFailed ==
    /\ pc = "ret"
    /\ op = "Manifest::try_find"
    /\ hres.tag = "Err"
    /\ Return(ErrorIo(hres))

\* let Some(..) = .. else { return Ok(None) }   (lines 84-88)
ManifestNotFound ==
    /\ pc = "ret"
    /\ op = "Manifest::try_find"
    /\ hres.tag = "Ok"
    /\ ~hres.val.some
    /\ Return(Ok(None))

\* Loaded, were a manifest that cannot be read taken for no manifest.
LoadedLenient(file, outcome) ==
    CASE outcome = "unreadable" -> Ok(None)
      [] outcome = "malformed" -> ErrorDe(file)
      [] outcome = "manifest" -> Ok(Some([manifest |-> file]))

\* What lines 90-92 return for the file they read: the ? of line 90 converts
\* the io::Error, the ? of line 91 the DeserializeError.
Loaded(file, outcome) ==
    CASE outcome = "unreadable" -> ErrorIo(IoErr("read_to_string", file))
      [] outcome = "malformed" -> ErrorDe(file)
      [] outcome = "manifest" -> Ok(Some([manifest |-> file]))

\* Lines 90-92: read root.join(MANIFEST_FILE), parse it, return it.
ManifestLoad ==
    /\ pc = "ret"
    /\ op = "Manifest::try_find"
    /\ hres.tag = "Ok"
    /\ hres.val.some
    /\ LET file == Join(hres.val.v.root, MANIFEST_FILE_NAME) IN
       \E outcome \in FileOutcomes :
          /\ files' = Append(files, [file |-> file, got |-> outcome])
          /\ result' = Loaded(file, outcome)
    /\ pc' = "done"
    /\ UNCHANGED <<op, abs, path, heuristics, first, idx, fs, reads, hits, hres, parser>>

\* ------------------------------------------------------------------------
\* Specification
\* ------------------------------------------------------------------------

Next ==
    \/ HeurTryFindProjectRoot
    \/ HeurProjectRoot
    \/ HeurIsProjectRoot
    \/ LibTryFindProjectRoot
    \/ LibIsProjectRoot
    \/ ManifestTryFind
    \/ Examine
    \/ Exhausted
    \/ Scan
    \/ ReturnHeuristics
    \/ ReturnHeurIsProjectRoot
    \/ ReturnLibTryFindProjectRoot
    \/ ReturnLibIsProjectRoot
    \/ ManifestWalkFailed
    \/ ManifestNotFound
    \/ ManifestLoad

Spec == Init /\ [][Next]_vars

\* ------------------------------------------------------------------------
\* Properties of the root resolver
\* ------------------------------------------------------------------------

\* The ancestor chain of the call.
Chain == Ancestors(path)

IsAncestor(p) == \E i \in DOMAIN Chain : Chain[i] = p

\* The ancestors that were listed, in the order they were listed.
ChainReads == SelectSeq(reads, IsAncestor)

\* The function of the heuristics module has returned.
Returned == pc \in {"ret", "done"}

Observed(p) == p \in DOMAIN fs

\* Directory p was listed and the program read from it a regular file of
\* that name.
HasRegular(p, name) ==
    /\ Observed(p)
    /\ fs[p].ok
    /\ \E k \in 1..Len(fs[p].ls) : fs[p].ls[k] = Entry(name, "file")

\* Directory p was listed, and listing it and looking up the type of each
\* entry read from it succeeded.
Clean(p) ==
    /\ Observed(p)
    /\ fs[p].ok
    /\ \A k \in 1..Len(fs[p].ls) : fs[p].ls[k].typ # "err"

\* The ancestors up to the i-th were listed, none farther.
ExaminedUpTo(i) ==
    /\ ChainReads = SubSeq(Chain, 1, i)
    /\ \A j \in DOMAIN Chain : j > i => ~Observed(Chain[j])

\* C1: heuristics::try_find_project_root examines the path and its ancestors
\* from nearest to farthest and returns the nearest ancestor whose
\* project_root result is non-empty, with that result; the walk stops at the
\* first directory with any match, whether or not the match equals wanted,
\* and examines no farther ancestor.  It returns None only when every
\* ancestor yields the empty set.
C1_WalkStopsAtNearestMatch ==
    (op = "heuristics::try_find_project_root" /\ Returned) =>
        /\ (hres.tag = "Ok" /\ hres.val.some) =>
              \E i \in DOMAIN Chain :
                 /\ hres.val.v.root = Chain[i]
                 /\ hres.val.v.matched # {}
                 /\ ProjectRoot(fs, Chain[i], heuristics, first).r = Ok(hres.val.v.matched)
                 /\ \A j \in 1..(i - 1) :
                       ProjectRoot(fs, Chain[j], heuristics, first).r = Ok({})
                 /\ ExaminedUpTo(i)
        /\ hres = Ok(None) =>
              \A i \in DOMAIN Chain :
                 /\ Observed(Chain[i])
                 /\ ProjectRoot(fs, Chain[i], heuristics, first).r = Ok({})
        /\ pc = "done" => result = hres

\* A walk that stopped at the start directory on a match smaller than wanted,
\* with a farther ancestor left unexamined.
C1_Witness ==
    /\ op = "heuristics::try_find_project_root"
    /\ pc = "done"
    /\ result.tag = "Ok"
    /\ result.val.some
    /\ result.val.v.root = Chain[1]
    /\ result.val.v.matched # heuristics
    /\ ~first
    /\ Len(Chain) > 1
    /\ ~Observed(Chain[2])

\* C2: with wanted = MANIFEST_FILE and listings that succeed, resolving from
\* a directory at or below the nearest ancestor P that holds a regular file
\* typst.toml returns P with exactly the manifest flag; an entry named
\* typst.toml that is not a regular file is no match.
C2_ManifestHeuristicFindsNearest ==
    (op = "heuristics::try_find_project_root" /\ heuristics = MANIFEST_FILE /\ Returned) =>
        /\ \A i \in DOMAIN Chain :
              ( /\ \A j \in 1..i : Clean(Chain[j])
                /\ HasRegular(Chain[i], MANIFEST_FILE_NAME)
                /\ \A j \in 1..(i - 1) : ~HasRegular(Chain[j], MANIFEST_FILE_NAME) )
              => hres = Ok(Some([root |-> Chain[i], matched |-> MANIFEST_FILE]))
        /\ (hres.tag = "Ok" /\ hres.val.some) =>
              /\ HasRegular(hres.val.v.root, MANIFEST_FILE_NAME)
              /\ hres.val.v.matched = MANIFEST_FILE

\* Resolving from a directory that holds typst.toml as a symlink, below a
\* directory that holds it as a regular file, returned the latter.
C2_Witness ==
    /\ op = "heuristics::try_find_project_root"
    /\ heuristics = MANIFEST_FILE
    /\ pc = "done"
    /\ Len(Chain) > 1
    /\ Observed(Chain[1])
    /\ fs[Chain[1]] = Readable(<<Entry(MANIFEST_FILE_NAME, "symlink")>>)
    /\ result = Ok(Some([root |-> Chain[2], matched |-> MANIFEST_FILE]))

\* Directory p holds one of the marker files of ROOT_FILES.
HasMarker(p) == \E k \in 1..Len(ROOT_FILES) : HasRegular(p, ROOT_FILES[k].f)

\* C3: when neither the start path nor any of its ancestors holds a marker,
\* try_find_project_root with the recommended heuristics returns Ok(None),
\* for absolute and for relative start paths.  (Every directory the chain
\* names lists without failure; the last ancestor of a relative path is the
\* empty path, which names no directory.)
C3_NoMarkerIsNone ==
    ( /\ op = "try_find_project_root"
      /\ pc = "done"
      /\ Len(path) > 0
      /\ \A i \in DOMAIN Chain :
            (abs \/ Chain[i] # <<>>) => (Clean(Chain[i]) /\ ~HasMarker(Chain[i])) )
    => result = Ok(None)

\* The entries of directory p up to the k-th yield no match and no failure.
QuietBefore(p, k) ==
    \A j \in 1..(k - 1) :
        PotentialRootDirEntry(fs, p, fs[p].ls[j], heuristics).r = Ok(None)

\* The failure that listing directory p meets before any match, if any.
FailureBeforeMatch(p) ==
    IF ~fs[p].ok
    THEN {IoErr("read_dir", p)}
    ELSE { PotentialRootDirEntry(fs, p, fs[p].ls[k], heuristics).r :
             k \in { n \in 1..Len(fs[p].ls) :
                       /\ PotentialRootDirEntry(fs, p, fs[p].ls[n], heuristics).r.tag = "Err"
                       /\ QuietBefore(p, n) } }

IsPrefix(p, q) == Len(p) <= Len(q) /\ SubSeq(q, 1, Len(p)) = p

\* C4: if listing an ancestor, or looking up the type of one of its entries,
\* fails before any match, heuristics::try_find_project_root returns that
\* io::Error: the ancestor is not skipped, no farther ancestor is examined,
\* and the result is neither Ok(None) nor a root found higher up.  Every
\* error it returns comes from the ancestor it examined last.
C4_IoErrorPropagates ==
    (op = "heuristics::try_find_project_root" /\ Returned) =>
        /\ \A i \in DOMAIN Chain :
              Observed(Chain[i]) =>
                 \A e \in FailureBeforeMatch(Chain[i]) :
                    /\ hres = e
                    /\ idx = i
                    /\ ExaminedUpTo(i)
                    /\ pc = "done" => result = e
        /\ hres.tag = "Err" =>
              /\ Observed(Chain[idx])
              /\ ExaminedUpTo(idx)
              /\ hres.call \in {"read_dir", "file_type"}
              /\ IsPrefix(Chain[idx], hres.at)

\* The type lookup of an entry of the start directory failed, the error was
\* returned and the parent directory was never listed.
C4_Witness ==
    /\ op = "heuristics::try_find_project_root"
    /\ pc = "done"
    /\ Len(Chain) > 1
    /\ abs
    /\ result = IoErr("file_type", Join(Chain[1], "x"))
    /\ ~Observed(Chain[2])

\* C5: when wanted includes SRC_FOLDER and directory D holds a subdirectory
\* src, project_root(D, wanted, _) lists D/src itself, one level below D, and
\* no other directory besides D.
C5_SrcBranchListsSrc ==
    (op = "heuristics::project_root" /\ Returned) =>
        \A k \in 1..Len(reads) : reads[k] \in {path, Join(path, "src")}

\* C6: project_root reports a marker only if its heuristic is contained in
\* wanted: with wanted = MAIN_FILE a directory whose only entry is the file
\* lib.typ yields the empty set, and so does wanted = LIB_FILE for a directory
\* whose only entry is the file main.typ.
C6_OnlyWantedMarkers ==
    (op = "heuristics::project_root" /\ Returned /\ Observed(path)) =>
        /\ (heuristics = MAIN_FILE /\ fs[path] = Readable(<<Entry("lib.typ", "file")>>))
              => hres = Ok({})
        /\ (heuristics = LIB_FILE /\ fs[path] = Readable(<<Entry("main.typ", "file")>>))
              => hres = Ok({})

\* C7: the conversion Heuristic -> Heuristics gives distinct heuristics
\* distinct flag combinations, so the set reported for a matched heuristic
\* belongs to no other heuristic.
C7_DistinctCombinations ==
    \A c \in 1..Len(hits) : \A k \in 1..Len(hits[c]) :
        \A g \in Heuristic : Into(g) = Into(hits[c][k]) => g = hits[c][k]

\* What a listing of directory p with wanted = MANIFEST_FILE and first = true
\* meets first: a failure (the directory cannot be listed, or the type of an
\* entry cannot be looked up), the regular file typst.toml, or neither.
FirstOf(p) ==
    LET S == { k \in 1..Len(fs[p].ls) :
                 \/ fs[p].ls[k].typ = "err"
                 \/ fs[p].ls[k] = Entry(MANIFEST_FILE_NAME, "file") }
    IN  IF S = {} THEN 0 ELSE CHOOSE k \in S : \A n \in S : k <= n

Sees(p) ==
    IF ~fs[p].ok THEN "failure"
    ELSE IF FirstOf(p) = 0 THEN "nothing"
    ELSE IF fs[p].ls[FirstOf(p)].typ = "err" THEN "failure"
    ELSE "manifest"

\* The i-th ancestor is the nearest one whose listing meets what.
NearestSees(i, what) ==
    /\ \A j \in 1..i : Observed(Chain[j])
    /\ Sees(Chain[i]) = what
    /\ \A j \in 1..(i - 1) : Sees(Chain[j]) = "nothing"

\* C8: Manifest::try_find returns Ok(None) exactly when the walk meets no
\* failure and no ancestor holds a regular file typst.toml.  Otherwise a
\* failure of the walk is returned as Error::Io, and a typst.toml found is
\* read from the nearest such ancestor only: a read failure is Error::Io, a
\* parse failure Error::De, and there is no fallback to a farther ancestor
\* or to Ok(None).
C8_ManifestTryFind ==
    (op = "Manifest::try_find" /\ pc = "done") =>
        /\ result = Ok(None) <=>
              \A i \in DOMAIN Chain : Observed(Chain[i]) /\ Sees(Chain[i]) = "nothing"
        /\ \A i \in DOMAIN Chain :
              NearestSees(i, "failure") =>
                 /\ result = ErrorIo(hres)
                 /\ hres.tag = "Err"
                 /\ files = <<>>
                 /\ ExaminedUpTo(i)
        /\ \A i \in DOMAIN Chain :
              NearestSees(i, "manifest") =>
                 LET file == Join(Chain[i], MANIFEST_FILE_NAME) IN
                 /\ Len(files) = 1
                 /\ files[1].file = file
                 /\ files[1].got = "unreadable" =>
                       result = ErrorIo(IoErr("read_to_string", file))
                 /\ files[1].got = "malformed" => result = ErrorDe(file)
                 /\ files[1].got = "manifest" => result = Ok(Some([manifest |-> file]))
                 /\ ExaminedUpTo(i)

\* The typst.toml found in the start directory could not be read: Error::Io,
\* and the parent directory was never listed.
C8_Witness ==
    /\ op = "Manifest::try_find"
    /\ pc = "done"
    /\ Len(Chain) > 1
    /\ HasRegular(Chain[1], MANIFEST_FILE_NAME)
    /\ result = ErrorIo(IoErr("read_to_string", Join(Chain[1], MANIFEST_FILE_NAME)))
    /\ ~Observed(Chain[2])

\* C9: the entry points of lib use RECOMMENDED with early exit, and
\* RECOMMENDED is the manifest flag alone: try_find_project_root(path)
\* returns the path component of what the heuristics module returns, which
\* is the nearest ancestor holding a regular file typst.toml;
\* is_project_root(p) is true exactly when listing p meets a regular file
\* typst.toml, so a directory holding main.typ or lib.typ and no typst.toml
\* is not a root.
C9_DefaultEntryPoints ==
    /\ (op = "try_find_project_root" /\ pc = "done") =>
          /\ heuristics = MANIFEST_FILE
          /\ first
          /\ (hres.tag = "Ok" /\ hres.val.some) => result = Ok(Some(hres.val.v.root))
          /\ ~(hres.tag = "Ok" /\ hres.val.some) => result = hres
          /\ \A i \in DOMAIN Chain :
                NearestSees(i, "manifest") => result = Ok(Some(Chain[i]))
          /\ (result.tag = "Ok" /\ result.val.some) =>
                HasRegular(result.val.v, MANIFEST_FILE_NAME)
    /\ (op = "is_project_root" /\ pc = "done") =>
          /\ heuristics = MANIFEST_FILE
          /\ first
          /\ hres.tag = "Ok" => result = Ok(hres.val # {})
          /\ result = Ok(TRUE) <=> Sees(path) = "manifest"
          /\ result = Ok(FALSE) <=> Sees(path) = "nothing"

\* is_project_root said no for a directory that holds main.typ and lib.typ.
C9_Witness ==
    /\ op = "is_project_root"
    /\ pc = "done"
    /\ HasRegular(path, "main.typ")
    /\ HasRegular(path, "lib.typ")
    /\ result = Ok(FALSE)

\* ------------------------------------------------------------------------
\* Texts
\* A text is the sequence of its characters, all of them ASCII, so that its
\* length in bytes is its length.
\* ------------------------------------------------------------------------

\* The characters of the texts given to the parsers.
Chars == {"a", " ", "<", ">", "@", "-"}

\* Texts whose contact starts with "http", or nearly so.
Samples ==
    { <<"<", "h", "t", "t", "p", ">">>,
      <<"a", " ", "<", "h", "t", "t", "p", "@", "a", ">">>,
      <<"<", "h", "t", "t", "p", " ", ">">>,
      <<"<", "@", "h", "t", "t", "p", ">">>,
      <<"<", "h", "t", "t", ">">> }

Texts == UNION {[1..n -> Chars] : n \in 0..MaxLen} \cup Samples

\* char::is_whitespace
IsWhitespace(c) == c = " "

\* char::is_ascii_alphanumeric
IsAsciiAlphanumeric(c) == c \in {"a", "h", "t", "p", "1"}

\* str::trim_start, as the index of the first character kept.
RECURSIVE TrimStartAt(_, _)
TrimStartAt(s, i) ==
    IF i <= Len(s) /\ IsWhitespace(s[i]) THEN TrimStartAt(s, i + 1) ELSE i

\* str::trim_end, as the index of the last character kept.
RECURSIVE TrimEndAt(_, _)
TrimEndAt(s, j) ==
    IF j >= 1 /\ IsWhitespace(s[j]) THEN TrimEndAt(s, j - 1) ELSE j

\* Trim, were it to strip leading whitespace only.
TrimStartOnly(s) == SubSeq(s, TrimStartAt(s, 1), Len(s))

\* str::trim
Trim(s) == SubSeq(s, TrimStartAt(s, 1), TrimEndAt(s, Len(s)))

\* str::starts_with
StartsWith(s, prefix) == Len(s) >= Len(prefix) /\ SubSeq(s, 1, Len(prefix)) = prefix

\* Scanner::eat_until(c) with the cursor at i: the index where the cursor
\* stops, which is that of the next c or one past the end.
RECURSIVE EatUntil(_, _, _)
EatUntil(s, i, c) ==
    IF i > Len(s) \/ s[i] = c THEN i ELSE EatUntil(s, i + 1, c)

\* Scanner::eat_while(is_ascii_alphanumeric) with the cursor at i.
RECURSIVE EatWhileAlphanumeric(_, _)
EatWhileAlphanumeric(s, i) ==
    IF i <= Len(s) /\ IsAsciiAlphanumeric(s[i]) THEN EatWhileAlphanumeric(s, i + 1) ELSE i

ParseErr(e) == [tag |-> "Err", err |-> e]

ParseErrWith(e, c) == [tag |-> "Err", err |-> e, c |-> c]

\* ------------------------------------------------------------------------
\* GitHub handle (src/manifest/author/github_handle.rs 6-38)
\* ------------------------------------------------------------------------

\* if s.len() > 39
MaxHandleLen == 39

\* HandleScan, were a '-' after a '-' passed over.
RECURSIVE HandleScanLenient(_, _)
HandleScanLenient(s, i) ==
    IF i > Len(s) THEN Ok(s)
    ELSE LET j == EatWhileAlphanumeric(s, i) IN
         IF j > Len(s) THEN Ok(s)
         ELSE IF s[j] = "-"
              THEN HandleScanLenient(s, j + 1)
              ELSE ParseErrWith("ContainsInvalidChar", s[j])

\* The while loop of is_valid_github_handle with the cursor at i.
RECURSIVE HandleScan(_, _)
HandleScan(s, i) ==
    IF i > Len(s) THEN Ok(s)
    ELSE LET j == EatWhileAlphanumeric(s, i) IN
         IF j > Len(s) THEN Ok(s)
         ELSE IF s[j] = "-"
              THEN IF j + 1 <= Len(s) /\ s[j + 1] = "-"
                   THEN ParseErr("ContainsConsecutiveHyphens")
                   ELSE HandleScan(s, j + 1)
              ELSE ParseErrWith("ContainsInvalidChar", s[j])

\* IsValidGithubHandle, were the hyphens at the ends tested before the length.
IsValidGithubHandleHyphensFirst(s) ==
    IF StartsWith(s, <<"-">>) THEN ParseErr("StartedWithHyphen")
    ELSE IF Len(s) > 0 /\ s[Len(s)] = "-" THEN ParseErr("EndedWithHyphen")
    ELSE IF Len(s) > MaxHandleLen THEN ParseErr("TooLong")
    ELSE HandleScan(s, 1)

\* IsValidGithubHandle without the test of line 15.
IsValidGithubHandleNoEndTest(s) ==
    IF Len(s) > MaxHandleLen THEN ParseErr("TooLong")
    ELSE IF StartsWith(s, <<"-">>) THEN ParseErr("StartedWithHyphen")
    ELSE HandleScan(s, 1)

\* is_valid_github_handle
IsValidGithubHandle(s) ==
    IF Len(s) > MaxHandleLen THEN ParseErr("TooLong")
    ELSE IF StartsWith(s, <<"-">>) THEN ParseErr("StartedWithHyphen")
    ELSE IF Len(s) > 0 /\ s[Len(s)] = "-" THEN ParseErr("EndedWithHyphen")
    ELSE HandleScan(s, 1)

\* impl FromStr for GitHubHandle (define_conversions)
GitHubHandleFromStr(s) == IsValidGithubHandle(s)

\* A run of n alphanumeric characters.
Filler(n) == [k \in 1..n |-> "a"]

\* The texts of at most n characters.
ShortTexts(n) == UNION {[1..k -> Chars] : k \in 0..n}

\* The texts given to the handle grammar: the short ones, and texts around
\* the length limit, made of a short text, a run and a short text.
HandleTexts ==
    ShortTexts(MaxLen)
    \cup { pre \o Filler(n) \o suf :
             pre \in ShortTexts(2), suf \in ShortTexts(2),
             n \in (MaxHandleLen - 3)..(MaxHandleLen + 1) }

\* A text to validate as a GitHub handle.
InitHandle ==
    /\ pc = "idle"
    /\ op = "none"
    /\ abs = TRUE
    /\ path = <<>>
    /\ heuristics = {}
    /\ first = FALSE
    /\ idx = 1
    /\ fs = <<>>
    /\ reads = <<>>
    /\ hits = <<>>
    /\ files = <<>>
    /\ hres = Pending
    /\ result = Pending
    /\ input \in HandleTexts
    /\ output = Pending
    /\ shown = <<>>
    /\ again = Pending

\* GitHubHandle::from_str(input)
ParseHandle ==
    /\ output = Pending
    /\ output' = GitHubHandleFromStr(input)
    /\ UNCHANGED <<input, shown, again, resolver>>

NextHandle == ParseHandle

SpecHandle == InitHandle /\ [][NextHandle]_vars

\* ------------------------------------------------------------------------
\* Identifier (src/manifest/ident.rs 5-23)
\* ------------------------------------------------------------------------

\* The characters of the texts given to the identifier grammar, one or two
\* of each class: "a" is XID_Start, "1" and "_" are XID_Continue and not
\* XID_Start, "-" and " " are neither.
IdentChars == {"a", "1", "_", "-", " "}

\* unicode_ident::is_xid_start
IsXidStart(c) == c = "a"

\* unicode_ident::is_xid_continue
IsXidContinue(c) == c \in {"a", "1", "_"}

\* is_id_start
IsIdStart(c) == IsXidStart(c) \/ c = "_"

\* is_id_continue
IsIdContinue(c) == IsXidContinue(c) \/ c = "_" \/ c = "-"

\* IsValidIdent, were the first character held to the rule of the others.
IsValidIdentAnyFirst(s) ==
    IF Len(s) > 0 /\ IsIdContinue(s[1]) /\ \A k \in 2..Len(s) : IsIdContinue(s[k])
    THEN Ok(s)
    ELSE ParseErr("ContainsInvalidChar")

\* is_valid_ident: chars.next().is_some_and(|c| is_id_start(c) &&
\* chars.all(is_id_continue))
IsValidIdent(s) ==
    IF Len(s) > 0 /\ IsIdStart(s[1]) /\ \A k \in 2..Len(s) : IsIdContinue(s[k])
    THEN Ok(s)
    ELSE ParseErr("ContainsInvalidChar")

\* impl FromStr for Ident (define_conversions)
IdentFromStr(s) == IsValidIdent(s)

\* The texts given to the identifier grammar.
IdentTexts == UNION {[1..k -> IdentChars] : k \in 0..MaxLen}

\* A text to validate as an identifier.
InitIdent ==
    /\ pc = "idle"
    /\ op = "none"
    /\ abs = TRUE
    /\ path = <<>>
    /\ heuristics = {}
    /\ first = FALSE
    /\ idx = 1
    /\ fs = <<>>
    /\ reads = <<>>
    /\ hits = <<>>
    /\ files = <<>>
    /\ hres = Pending
    /\ result = Pending
    /\ input \in IdentTexts
    /\ output = Pending
    /\ shown = <<>>
    /\ again = Pending

\* Ident::from_str(input)
ParseIdent ==
    /\ output = Pending
    /\ output' = IdentFromStr(input)
    /\ UNCHANGED <<input, shown, again, resolver>>

NextIdent == ParseIdent

SpecIdent == InitIdent /\ [][NextIdent]_vars

\* ------------------------------------------------------------------------
\* Website (src/manifest/website.rs 7-17)
\* ------------------------------------------------------------------------

\* The character U+00E4, which is not ASCII.
AUmlaut == "U+00E4"

\* str::as_bytes: the UTF-8 encoding, one byte for an ASCII character, the
\* two bytes C3 A4 for U+00E4.
RECURSIVE AsBytes(_)
AsBytes(s) ==
    IF s = <<>> THEN <<>>
    ELSE (IF Head(s) = AUmlaut THEN <<"0xC3", "0xA4">> ELSE <<Head(s)>>) \o AsBytes(Tail(s))

\* b"-_.~:/?#[]@!$&'()*+,;="
WebsitePunctuation ==
    { "-", "_", ".", "~", ":", "/", "?", "#", "[", "]", "@", "!", "$", "&", "'", "(", ")",
      "*", "+", ",", ";", "=" }

\* is_legal_in_website
IsLegalInWebsite(c) == IsAsciiAlphanumeric(c) \/ c \in WebsitePunctuation

\* IsValidWebsite, were one legal byte enough.
IsValidWebsiteAny(s) ==
    IF \E k \in 1..Len(AsBytes(s)) : IsLegalInWebsite(AsBytes(s)[k])
    THEN Ok(s)
    ELSE ParseErr("ContainsInvalidChar")

\* is_valid_website
IsValidWebsite(s) ==
    IF \A k \in 1..Len(AsBytes(s)) : IsLegalInWebsite(AsBytes(s)[k])
    THEN Ok(s)
    ELSE ParseErr("ContainsInvalidChar")

\* impl FromStr for Website (define_conversions)
WebsiteFromStr(s) == IsValidWebsite(s)

\* ASCII characters that are not legal in a website.
WebsiteIllegal == {" ", "<", ">", "%", "{", "}", "^", "|"}

\* The characters of the longer texts given to the website grammar.
WebsiteChars == {"a", "/", " ", AUmlaut}

\* The texts given to the website grammar: the texts over WebsiteChars, and
\* each ASCII character of interest alone and between two characters.
WebsiteTexts ==
    UNION {[1..k -> WebsiteChars] : k \in 0..MaxLen}
    \cup { pre \o <<c>> \o suf :
             pre \in {<<>>, <<"a">>}, suf \in {<<>>, <<"a">>},
             c \in WebsitePunctuation \cup WebsiteIllegal \cup {"1"} }

\* A text to validate as a website.
InitWebsite ==
    /\ pc = "idle"
    /\ op = "none"
    /\ abs = TRUE
    /\ path = <<>>
    /\ heuristics = {}
    /\ first = FALSE
    /\ idx = 1
    /\ fs = <<>>
    /\ reads = <<>>
    /\ hits = <<>>
    /\ files = <<>>
    /\ hres = Pending
    /\ result = Pending
    /\ input \in WebsiteTexts
    /\ output = Pending
    /\ shown = <<>>
    /\ again = Pending

\* Website::from_str(input)
ParseWebsite ==
    /\ output = Pending
    /\ output' = WebsiteFromStr(input)
    /\ UNCHANGED <<input, shown, again, resolver>>

NextWebsite == ParseWebsite

SpecWebsite == InitWebsite /\ [][NextWebsite]_vars

\* ------------------------------------------------------------------------
\* Author (src/manifest/author.rs 56-90)
\* ------------------------------------------------------------------------

\* What the validator of the email_address crate can say of a text.  The
\* crate is no part of the repository: its verdict is left open.
EmailVerdicts == {"valid", "invalid"}

\* EmailAddress::from_str, given the verdict of the crate.
EmailAddressFromStr(s, verdict) ==
    IF verdict = "valid" THEN Ok(s) ELSE ParseErr("ParseEmailError")

\* InvalidContact, were every sub-grammar's error reported as one variant
\* without its source.
InvalidContactGeneric(variant, e) == [tag |-> "Err", err |-> "InvalidContact"]

\* #[from]: the error of the sub-grammar inside the variant of ParseAuthorError
InvalidContact(variant, e) == [tag |-> "Err", err |-> variant, source |-> e]

Contact(variant, r) == Some([variant |-> variant, text |-> r.val])

\* ContactFromBody, were the '@' left on the handle.
ContactFromBodyUnstripped(contact, verdict) ==
    IF StartsWith(contact, <<"@">>)
    THEN LET r == GitHubHandleFromStr(contact) IN
         IF r.tag = "Err" THEN InvalidContact("InvalidGithubHandle", r)
         ELSE Ok(Contact("GitHubHandle", r))
    ELSE IF StartsWith(contact, <<"h", "t", "t", "p">>)
    THEN LET r == WebsiteFromStr(contact) IN
         IF r.tag = "Err" THEN InvalidContact("InvalidWebsite", r)
         ELSE Ok(Contact("Website", r))
    ELSE LET r == EmailAddressFromStr(contact, verdict) IN
         IF r.tag = "Err" THEN InvalidContact("InvalidEmailAddress", r)
         ELSE Ok(Contact("Email", r))

\* Lines 74-80: the contact for a non-empty body closed by '>'.
ContactFromBody(contact, verdict) ==
    IF StartsWith(contact, <<"@">>)
    THEN LET r == GitHubHandleFromStr(Tail(contact)) IN
         IF r.tag = "Err" THEN InvalidContact("InvalidGithubHandle", r)
         ELSE Ok(Contact("GitHubHandle", r))
    ELSE IF StartsWith(contact, <<"h", "t", "t", "p">>)
    THEN LET r == WebsiteFromStr(contact) IN
         IF r.tag = "Err" THEN InvalidContact("InvalidWebsite", r)
         ELSE Ok(Contact("Website", r))
    ELSE LET r == EmailAddressFromStr(contact, verdict) IN
         IF r.tag = "Err" THEN InvalidContact("InvalidEmailAddress", r)
         ELSE Ok(Contact("Email", r))

\* impl FromStr for Author
AuthorFromStr(s, verdict) ==
    LET lt == EatUntil(s, 1, "<")
        name == SubSeq(s, 1, lt - 1)
    IN  IF lt <= Len(s)
        THEN LET gt == EatUntil(s, lt + 1, ">")
                 contact == SubSeq(s, lt + 1, gt - 1)
             IN  IF contact = <<>> THEN ParseErr("EmptyContact")
                 ELSE IF gt > Len(s) THEN ParseErr("UnclosedContact")
                 ELSE LET c == ContactFromBody(contact, verdict) IN
                      IF c.tag = "Err" THEN c
                      ELSE Ok([name |-> Trim(name), contact |-> c.val])
        ELSE Ok([name |-> Trim(name), contact |-> None])

\* A text to parse.
InitAuthor ==
    /\ pc = "idle"
    /\ op = "none"
    /\ abs = TRUE
    /\ path = <<>>
    /\ heuristics = {}
    /\ first = FALSE
    /\ idx = 1
    /\ fs = <<>>
    /\ reads = <<>>
    /\ hits = <<>>
    /\ files = <<>>
    /\ hres = Pending
    /\ result = Pending
    /\ input \in Texts
    /\ output = Pending
    /\ shown = <<>>
    /\ again = Pending

\* Author::from_str(input)
ParseAuthor ==
    /\ output = Pending
    /\ \E verdict \in EmailVerdicts : output' = AuthorFromStr(input, verdict)
    /\ UNCHANGED <<input, shown, again, resolver>>

\* The arms of the match of lines 27-31: " <@{handle}>", " <{website}>",
\* " <{email}>".  Each of the three texts is displayed as it is stored.
ContactToString(contact) ==
    IF contact.variant = "GitHubHandle"
    THEN <<" ", "<", "@">> \o contact.text \o <<">">>
    ELSE <<" ", "<">> \o contact.text \o <<">">>

\* impl Display for Author: write!(f, "") and then the contact, if any.
AuthorToString(author) ==
    <<>> \o (IF author.contact.some THEN ContactToString(author.contact.v) ELSE <<>>)

\* impl Serialize for Author writes self.to_string(); impl Deserialize for
\* Author gives the text it reads to Author::from_str.  An email address the
\* crate accepted before is accepted again.
Reparse ==
    /\ output # Pending
    /\ output.tag = "Ok"
    /\ again = Pending
    /\ LET text == AuthorToString(output.val) IN
       /\ shown' = text
       /\ again' = AuthorFromStr(text, "valid")
    /\ UNCHANGED <<input, output, resolver>>

NextAuthor == ParseAuthor \/ Reparse

SpecAuthor == InitAuthor /\ [][NextAuthor]_vars

\* ------------------------------------------------------------------------
\* Properties of Author::from_str
\* ------------------------------------------------------------------------

\* Where the first '<' of s is, or one past the end of s.
FirstLt(s) ==
    IF \E k \in 1..Len(s) : s[k] = "<"
    THEN CHOOSE k \in 1..Len(s) : s[k] = "<" /\ \A j \in 1..(k - 1) : s[j] # "<"
    ELSE Len(s) + 1

\* n is t without the whitespace around it.
IsTrimmed(n, t) ==
    /\ n # <<>> => (~IsWhitespace(n[1]) /\ ~IsWhitespace(n[Len(n)]))
    /\ \E a \in 0..Len(t) :
          /\ a + Len(n) <= Len(t)
          /\ SubSeq(t, a + 1, a + Len(n)) = n
          /\ \A k \in 1..a : IsWhitespace(t[k])
          /\ \A k \in (a + Len(n) + 1)..Len(t) : IsWhitespace(t[k])

\* C10: Author::from_str sets name to the text before the first '<' with the
\* whitespace around it trimmed, possibly empty; for an input without '<' the
\* result is Ok with that name and no contact.
C10_AuthorName ==
    output # Pending =>
        /\ output.tag = "Ok" =>
              IsTrimmed(output.val.name, SubSeq(input, 1, FirstLt(input) - 1))
        /\ FirstLt(input) > Len(input) =>
              /\ output.tag = "Ok"
              /\ output.val.contact = None
              /\ IsTrimmed(output.val.name, input)

\* A text without '<' and with whitespace on both sides of the name was
\* parsed.
C10_Witness ==
    /\ output # Pending
    /\ input = <<" ", "a", " ", " ">>
    /\ output = Ok([name |-> <<"a">>, contact |-> None])

\* Where the first '>' after the first '<' of s is, or one past the end of s.
FirstGt(s) ==
    LET S == {k \in (FirstLt(s) + 1)..Len(s) : s[k] = ">"} IN
    IF S = {} THEN Len(s) + 1 ELSE CHOOSE k \in S : \A n \in S : k <= n

HasLt(s) == FirstLt(s) <= Len(s)

\* s holds a '<' and a '>' after it.
Closed(s) == HasLt(s) /\ FirstGt(s) <= Len(s)

\* The text strictly between the first '<' of s and the '>' that follows it,
\* or the end of s.
BodyOf(s) == SubSeq(s, FirstLt(s) + 1, FirstGt(s) - 1)

Http == <<"h", "t", "t", "p">>

\* The parser returned the contact of that variant holding that text.
ReturnedContact(variant, text) ==
    /\ output.tag = "Ok"
    /\ output.val.contact = Some([variant |-> variant, text |-> text])

\* The parser failed with that variant of ParseAuthorError.
Failed(variant) == output.tag = "Err" /\ output.err = variant

\* C11: for a non-empty contact body closed by '>', Author::from_str chooses
\* the sub-grammar by prefix only: after a leading '@' the rest of the body is
\* validated as a GitHub handle; otherwise a body starting with "http" is
\* validated as a Website; every other body is validated as an email
\* address.  The Contact returned is of the chosen variant and holds the
\* validated text; a body its sub-grammar rejects fails with the error
\* variant of that sub-grammar.
C11_ContactByPrefix ==
    (output # Pending /\ Closed(input) /\ BodyOf(input) # <<>>) =>
        LET body == BodyOf(input) IN
        /\ body[1] = "@" =>
              IF GitHubHandleFromStr(Tail(body)).tag = "Ok"
              THEN ReturnedContact("GitHubHandle", Tail(body))
              ELSE Failed("InvalidGithubHandle")
        /\ (body[1] # "@" /\ StartsWith(body, Http)) =>
              IF WebsiteFromStr(body).tag = "Ok"
              THEN ReturnedContact("Website", body)
              ELSE Failed("InvalidWebsite")
        /\ (body[1] # "@" /\ ~StartsWith(body, Http)) =>
              \/ ReturnedContact("Email", body)
              \/ Failed("InvalidEmailAddress")

\* A body that starts with '@' and goes on with "http" gave a GitHub handle.
C11_Witness ==
    /\ input = <<"<", "@", "h", "t", "t", "p", ">">>
    /\ ReturnedContact("GitHubHandle", Http)

\* C12: Author::from_str fails with EmptyContact when the text between the
\* '<' and the '>' that follows it is empty, and with UnclosedContact for
\* every input that holds a '<' with no '>' after it.
C12_ContactDelimiters ==
    output # Pending =>
        /\ (Closed(input) /\ BodyOf(input) = <<>>) => output = ParseErr("EmptyContact")
        /\ (HasLt(input) /\ ~Closed(input)) => output = ParseErr("UnclosedContact")

\* C13: the contact of every Author that Author::from_str returns holds a
\* non-empty text that satisfies the grammar of its variant.
C13_ContactWellFormed ==
    (output # Pending /\ output.tag = "Ok" /\ output.val.contact.some) =>
        LET contact == output.val.contact.v IN
        /\ contact.text # <<>>
        /\ contact.variant = "GitHubHandle" => IsValidGithubHandle(contact.text).tag = "Ok"
        /\ contact.variant = "Website" => IsValidWebsite(contact.text).tag = "Ok"

\* C14: when the contact body fails its sub-grammar, Author::from_str returns
\* the error variant of that sub-grammar holding the sub-grammar's own error
\* unchanged; the three variants differ from one another, and such a failure
\* is never reported as EmptyContact or UnclosedContact.
C14_SubGrammarErrorWrapped ==
    (output # Pending /\ Closed(input) /\ BodyOf(input) # <<>>) =>
        LET body == BodyOf(input) IN
        /\ (body[1] = "@" /\ IsValidGithubHandle(Tail(body)).tag = "Err") =>
              output = [tag |-> "Err", err |-> "InvalidGithubHandle",
                        source |-> IsValidGithubHandle(Tail(body))]
        /\ (body[1] # "@" /\ StartsWith(body, Http) /\ IsValidWebsite(body).tag = "Err") =>
              output = [tag |-> "Err", err |-> "InvalidWebsite",
                        source |-> IsValidWebsite(body)]
        /\ (body[1] # "@" /\ ~StartsWith(body, Http) /\ output.tag = "Err") =>
              output = [tag |-> "Err", err |-> "InvalidEmailAddress",
                        source |-> ParseErr("ParseEmailError")]
        /\ output.tag = "Err" =>
              output.err \in {"InvalidGithubHandle", "InvalidWebsite", "InvalidEmailAddress"}

\* A handle with a space in it failed as InvalidGithubHandle holding
\* ContainsInvalidChar(' ').
C14_Witness ==
    /\ input = <<"<", "@", " ", ">">>
    /\ output = [tag |-> "Err", err |-> "InvalidGithubHandle",
                 source |-> ParseErrWith("ContainsInvalidChar", " ")]

\* C15: for every Author a that Author::from_str returns, parsing the text a
\* serializes to (its Display form) succeeds and gives an Author equal to a,
\* with the same name and the same contact.
C15_AuthorRoundTrip ==
    again # Pending => again = output

\* ------------------------------------------------------------------------
\* Properties of the GitHub handle grammar
\* ------------------------------------------------------------------------

IsHandleChar(c) == IsAsciiAlphanumeric(c) \/ c = "-"

\* The least element of a set of positions of s, or one past the end of s.
FirstIn(S, s) == IF S = {} THEN Len(s) + 1 ELSE CHOOSE k \in S : \A n \in S : k <= n

\* Where the first character of s is that is neither alphanumeric nor '-'.
FirstBad(s) == FirstIn({k \in 1..Len(s) : ~IsHandleChar(s[k])}, s)

\* Where the first "--" of s starts.
FirstPair(s) == FirstIn({k \in 1..(Len(s) - 1) : s[k] = "-" /\ s[k + 1] = "-"}, s)

HasPair(s) == FirstPair(s) <= Len(s)

LeadingHyphen(s) == Len(s) > 0 /\ s[1] = "-"

TrailingHyphen(s) == Len(s) > 0 /\ s[Len(s)] = "-"

\* C16: the handle grammar reports one error per rejected input, with fixed
\* precedence: a length above 39 gives TooLong whatever else is wrong;
\* otherwise a leading '-' gives StartedWithHyphen; otherwise a trailing '-'
\* gives EndedWithHyphen; only then the scan from left to right reports the
\* first violation it meets, ContainsConsecutiveHyphens or
\* ContainsInvalidChar(c) with c the first character that is neither
\* alphanumeric nor '-'.
C16_HandleErrorPrecedence ==
    output # Pending =>
        IF Len(input) > 39 THEN output = ParseErr("TooLong")
        ELSE IF LeadingHyphen(input) THEN output = ParseErr("StartedWithHyphen")
        ELSE IF TrailingHyphen(input) THEN output = ParseErr("EndedWithHyphen")
        ELSE IF FirstPair(input) < FirstBad(input)
             THEN output = ParseErr("ContainsConsecutiveHyphens")
        ELSE IF FirstBad(input) <= Len(input)
             THEN output = ParseErrWith("ContainsInvalidChar", input[FirstBad(input)])
        ELSE output.tag = "Ok"

\* A text of more than 39 characters that starts and ends with '-' was
\* rejected as TooLong.
C16_Witness ==
    /\ Len(input) > 39
    /\ LeadingHyphen(input)
    /\ TrailingHyphen(input)
    /\ output = ParseErr("TooLong")

\* C17, as stated: every input of the handle grammar that holds "--" is
\* rejected with ContainsConsecutiveHyphens.
C17_PairIsConsecutiveHyphens ==
    (output # Pending /\ HasPair(input)) => output = ParseErr("ContainsConsecutiveHyphens")

\* C17, amended: every input of the handle grammar that holds "--" is
\* rejected, and the error is ContainsConsecutiveHyphens exactly when no
\* test of higher precedence fails: the input has at most 39 characters,
\* neither starts nor ends with '-', and holds no character that is neither
\* alphanumeric nor '-' before its first "--".
C17_PairIsRejected ==
    (output # Pending /\ HasPair(input)) =>
        /\ output.tag = "Err"
        /\ output = ParseErr("ContainsConsecutiveHyphens") <=>
              /\ Len(input) <= 39
              /\ ~LeadingHyphen(input)
              /\ ~TrailingHyphen(input)
              /\ FirstPair(input) < FirstBad(input)

\* A text with "--" in its middle and nothing else wrong was rejected for the
\* consecutive hyphens.
C17_Witness ==
    /\ input = <<"a", "-", "-", "a">>
    /\ output = ParseErr("ContainsConsecutiveHyphens")

\* C18: the handle grammar accepts exactly the texts that satisfy the four
\* rules at once: at most 39 characters, no '-' at either end, no "--", and
\* every character alphanumeric or '-'.  It rejects every other text.
C18_HandleAcceptsExactly ==
    output # Pending =>
        ( output.tag = "Ok" <=>
            /\ Len(input) <= 39
            /\ ~LeadingHyphen(input)
            /\ ~TrailingHyphen(input)
            /\ ~HasPair(input)
            /\ \A k \in 1..Len(input) : IsHandleChar(input[k]) )

\* A text of 39 characters with single hyphens inside was accepted.
C18_Witness ==
    /\ Len(input) = 39
    /\ \E k \in 2..38 : input[k] = "-"
    /\ output.tag = "Ok"

\* ------------------------------------------------------------------------
\* Properties of the identifier grammar
\* ------------------------------------------------------------------------

\* The k-th character of s breaks the rule of its place: the first one is no
\* start-class character and no '_', a further one is no continue-class
\* character, no '_' and no '-'.
Violates(s, k) ==
    IF k = 1
    THEN ~(IsXidStart(s[1]) \/ s[1] = "_")
    ELSE ~(IsXidContinue(s[k]) \/ s[k] \in {"_", "-"})

\* C19, as stated: every accepted identifier has a first character and no
\* character of it breaks the rule of its place; every rejected text, the
\* empty one included, holds at least one character that does.
C19_IdentRuleAsStated ==
    output # Pending =>
        /\ output.tag = "Ok" =>
              (Len(input) > 0 /\ \A k \in 1..Len(input) : ~Violates(input, k))
        /\ output.tag = "Err" => \E k \in 1..Len(input) : Violates(input, k)

\* C19, amended: every accepted identifier has a first character and no
\* character of it breaks the rule of its place; every rejected text is
\* empty or holds at least one character that does; the empty text is
\* rejected.
C19_IdentRule ==
    output # Pending =>
        /\ output.tag = "Ok" =>
              (Len(input) > 0 /\ \A k \in 1..Len(input) : ~Violates(input, k))
        /\ output.tag = "Err" =>
              (input = <<>> \/ \E k \in 1..Len(input) : Violates(input, k))
        /\ input = <<>> => output.tag = "Err"

\* A text that starts with a continue-class character that is no start-class
\* character was rejected.
C19_Witness ==
    /\ input = <<"1", "a">>
    /\ output = ParseErr("ContainsInvalidChar")

\* ------------------------------------------------------------------------
\* Properties of the website grammar
\* ------------------------------------------------------------------------

\* The character is ASCII alphanumeric or one of -_.~:/?#[]@!$&'()*+,;= .
\* No byte of a character that is not ASCII is either.
IsAllowedInWebsite(c) ==
    \/ c \in {"a", "h", "t", "p", "1"}
    \/ c \in { "-", "_", ".", "~", ":", "/", "?", "#", "[", "]", "@", "!", "$", "&", "'",
              "(", ")", "*", "+", ",", ";", "=" }

\* C20: is_valid_website accepts a text if and only if every byte of it is
\* ASCII alphanumeric or one of -_.~:/?#[]@!$&'()*+,;= ; one byte outside
\* that set (a space, a byte of a character that is not ASCII), wherever it
\* stands, rejects the whole text with ContainsInvalidChar: a legal prefix
\* is not accepted on its own.
C20_WebsiteAcceptsExactly ==
    output # Pending =>
        /\ (\A k \in 1..Len(input) : IsAllowedInWebsite(input[k])) => output = Ok(input)
        /\ (\E k \in 1..Len(input) : ~IsAllowedInWebsite(input[k])) =>
              output = ParseErr("ContainsInvalidChar")

\* A text with a legal prefix and a character that is not ASCII at its end
\* was rejected.
C20_Witness ==
    /\ input = <<"a", "/", "a", "U+00E4">>
    /\ output = ParseErr("ContainsInvalidChar")

\* ------------------------------------------------------------------------
\* The validated newtypes Ident, GitHubHandle and Website
\* (src/utils.rs 1-102: define_conversions, define_serde, define_formatting)
\* ------------------------------------------------------------------------

Newtypes == {"Ident", "GitHubHandle", "Website"}

\* $validator, as the three invocations of the macros name it
\* (ident.rs 35-36, github_handle.rs 62-68, website.rs 29-30).
Validator(type, s) ==
    CASE type = "Ident" -> IsValidIdent(s)
      [] type = "GitHubHandle" -> IsValidGithubHandle(s)
      [] type = "Website" -> IsValidWebsite(s)

\* The texts each grammar is given.
TextsOf(type) ==
    CASE type = "Ident" -> IdentTexts
      [] type = "GitHubHandle" -> HandleTexts
      [] type = "Website" -> WebsiteTexts

NewtypeTexts == UNION {TextsOf(type) : type \in Newtypes}

\* $type(v): the tuple struct around the String v.
Newtype(type, v) == [type |-> type, text |-> v]

\* str::to_owned: the same characters in a String of its own.
ToOwned(s) == [k \in 1..Len(s) |-> s[k]]

\* TryFromString without the validator call of line 28.
TryFromStringUnchecked(type, value) == Ok(Newtype(type, value))

\* impl TryFrom<String> for $type (lines 24-31)
TryFromString(type, value) ==
    LET r == Validator(type, value) IN
    IF r.tag = "Err" THEN r ELSE Ok(Newtype(type, value))

\* impl FromStr for $type (lines 33-40)
FromStr(type, s) ==
    LET r == Validator(type, s) IN
    IF r.tag = "Err" THEN r ELSE Ok(Newtype(type, ToOwned(s)))

\* A serde::de::Error, by the constructor that made it.
DeErr(kind, v) == [tag |-> "Err", err |-> kind, unexpected |-> v]

\* TypeVisitor::visit_string (lines 70-78): the validator's error is replaced
\* by E::invalid_value.
VisitString(type, v) ==
    IF Validator(type, v).tag = "Err" THEN DeErr("invalid_value", v) ELSE Ok(Newtype(type, v))

\* The methods through which a deserializer can hand a string to the visitor.
\* Which one it calls is the deserializer's choice: deserialize_string
\* (line 81) is a hint.
VisitCalls == {"visit_string", "visit_str"}

\* impl Deserialize for $type (lines 56-83).  TypeVisitor defines
\* visit_string only: visit_str is serde's default, which fails with
\* E::invalid_type.
Deserialize(type, call, v) ==
    IF call = "visit_string" THEN VisitString(type, v) ELSE DeErr("invalid_type", v)

\* The text representation: Display, Deref, AsRef<str>, From<$type> for
\* String and Serialize all give the field 0 (lines 4-22, 47-54, 90-94).
ToText(value) == value.text

ConstructionPaths == {"from_str", "try_from", "deserialize"}

\* The name of a construction path of a type, as an entry point.
Constructor(type, way) ==
    CASE type = "Ident" /\ way = "from_str" -> "Ident::from_str"
      [] type = "Ident" /\ way = "try_from" -> "Ident::try_from"
      [] type = "Ident" /\ way = "deserialize" -> "Ident::deserialize"
      [] type = "GitHubHandle" /\ way = "from_str" -> "GitHubHandle::from_str"
      [] type = "GitHubHandle" /\ way = "try_from" -> "GitHubHandle::try_from"
      [] type = "GitHubHandle" /\ way = "deserialize" -> "GitHubHandle::deserialize"
      [] type = "Website" /\ way = "from_str" -> "Website::from_str"
      [] type = "Website" /\ way = "try_from" -> "Website::try_from"
      [] type = "Website" /\ way = "deserialize" -> "Website::deserialize"

\* A text to construct a newtype from.
InitNewtype ==
    /\ pc = "idle"
    /\ op = "none"
    /\ abs = TRUE
    /\ path = <<>>
    /\ heuristics = {}
    /\ first = FALSE
    /\ idx = 1
    /\ fs = <<>>
    /\ reads = <<>>
    /\ hits = <<>>
    /\ files = <<>>
    /\ hres = Pending
    /\ result = Pending
    /\ input \in NewtypeTexts
    /\ output = Pending
    /\ shown = <<>>
    /\ again = Pending

Construct(type, way, r) ==
    /\ op = "none"
    /\ input \in TextsOf(type)
    /\ op' = Constructor(type, way)
    /\ output' = r
    /\ UNCHANGED <<pc, abs, path, heuristics, first, idx, fs, reads, hits, files, hres, result,
                   input, shown, again>>

\* $type::from_str(input)
NewtypeFromStr == \E type \in Newtypes : Construct(type, "from_str", FromStr(type, input))

\* $type::try_from(input.to_owned())
NewtypeTryFrom == \E type \in Newtypes : Construct(type, "try_from", TryFromString(type, input))

\* $type::deserialize(deserializer), the deserializer holding the string input
NewtypeDeserialize ==
    \E type \in Newtypes, call \in VisitCalls :
        Construct(type, "deserialize", Deserialize(type, call, input))

\* The text of the value that was constructed is taken and validated again.
Revalidate ==
    /\ output # Pending
    /\ output.tag = "Ok"
    /\ again = Pending
    /\ shown' = ToText(output.val)
    /\ again' = Validator(output.val.type, ToText(output.val))
    /\ UNCHANGED <<input, output, resolver>>

NextNewtype == NewtypeFromStr \/ NewtypeTryFrom \/ NewtypeDeserialize \/ Revalidate

SpecNewtype == InitNewtype /\ [][NextNewtype]_vars

\* ------------------------------------------------------------------------
\* Properties of the validated newtypes
\* ------------------------------------------------------------------------

\* The type and the construction path of the call.
Called(type, way) == op = Constructor(type, way)

\* C21: for Ident, GitHubHandle and Website, every construction path
\* (FromStr, TryFrom<String>, deserialization) runs the validator of the
\* grammar and stores the input text unchanged: a text the validator rejects
\* never yields a value; a value holds the text it was made from; FromStr and
\* TryFrom yield a value for every text the validator accepts; the text
\* representation of a value is the input, character for character, and
\* validating it again succeeds.
C21_NewtypeRoundTrip ==
    \A type \in Newtypes : \A way \in ConstructionPaths :
        (Called(type, way) /\ output # Pending) =>
            /\ Validator(type, input).tag = "Err" => output.tag = "Err"
            /\ output.tag = "Ok" => output.val = [type |-> type, text |-> input]
            /\ (way # "deserialize" /\ Validator(type, input).tag = "Ok") => output.tag = "Ok"
            /\ again # Pending => (shown = input /\ again.tag = "Ok")

\* A website given to the deserializer came back as a value whose text is the
\* input and validates again.
C21_Witness ==
    /\ Called("Website", "deserialize")
    /\ input = <<"a", "/", "a">>
    /\ output = Ok([type |-> "Website", text |-> input])
    /\ shown = input
    /\ again.tag = "Ok"

\* ------------------------------------------------------------------------
\* License (src/manifest/license.rs 11-25, 91-98)
\* A license text is the sequence of the license terms it names, in the
\* order of the text; the operators between them play no role in the code.
\* ------------------------------------------------------------------------

\* The terms of the texts given to the license grammar, one of each kind the
\* code tells apart: "MIT" is an SPDX id that is OSI-approved, "JSON" an SPDX
\* id that is not, "LicenseRef-x" a referencer, and "?" is no license term.
LicenseTerms == {"MIT", "JSON", "LicenseRef-x", "?"}

\* spdx::Expression::parse: a text without terms, or with something that is
\* no term, is a ParseError; otherwise the expression, whose requirements()
\* are the terms in the parser's enumeration order.
ExpressionParse(s) ==
    IF s = <<>> \/ \E k \in 1..Len(s) : s[k] = "?"
    THEN ParseErr("ParseError")
    ELSE Ok([requirements |-> s])

\* requirement.req.license.id(): None for a referencer.
LicenseIdOf(term) == IF term = "LicenseRef-x" THEN None ELSE Some(term)

\* LicenseId::is_osi_approved
IsOsiApproved(id) == id = "MIT"

\* Requirements, were the approval of every leaf tested before any leaf is
\* tested for being a referencer.
RequirementsApprovalFirst(expr, k) ==
    IF \E n \in 1..Len(expr.requirements) :
          /\ LicenseIdOf(expr.requirements[n]).some
          /\ ~IsOsiApproved(LicenseIdOf(expr.requirements[n]).v)
    THEN ParseErr("NotOSIApproved")
    ELSE IF \E n \in 1..Len(expr.requirements) : ~LicenseIdOf(expr.requirements[n]).some
    THEN ParseErr("ContainsReferencer")
    ELSE Ok(expr)

\* The loop of lines 14-22 at the k-th requirement.
RECURSIVE Requirements(_, _)
Requirements(expr, k) ==
    IF k > Len(expr.requirements) THEN Ok(expr)
    ELSE LET id == LicenseIdOf(expr.requirements[k]) IN
         IF ~id.some THEN ParseErr("ContainsReferencer")
         ELSE IF ~IsOsiApproved(id.v) THEN ParseErr("NotOSIApproved")
         ELSE Requirements(expr, k + 1)

\* is_valid_license: the ? of line 12 wraps the ParseError (#[from], line 82).
IsValidLicense(s) ==
    LET parsed == ExpressionParse(s) IN
    IF parsed.tag = "Err"
    THEN [tag |-> "Err", err |-> "Expression", source |-> parsed]
    ELSE Requirements(parsed.val, 1)

\* impl FromStr for License: License(expr)
LicenseFromStr(s) ==
    LET r == IsValidLicense(s) IN
    IF r.tag = "Err" THEN r ELSE Ok([type |-> "License", expr |-> r.val])

\* The texts given to the license grammar.
LicenseTexts == UNION {[1..k -> LicenseTerms] : k \in 0..MaxLen}

\* A text to parse as a license.
InitLicense ==
    /\ pc = "idle"
    /\ op = "none"
    /\ abs = TRUE
    /\ path = <<>>
    /\ heuristics = {}
    /\ first = FALSE
    /\ idx = 1
    /\ fs = <<>>
    /\ reads = <<>>
    /\ hits = <<>>
    /\ files = <<>>
    /\ hres = Pending
    /\ result = Pending
    /\ input \in LicenseTexts
    /\ output = Pending
    /\ shown = <<>>
    /\ again = Pending

\* License::from_str(input)
ParseLicense ==
    /\ output = Pending
    /\ output' = LicenseFromStr(input)
    /\ UNCHANGED <<input, shown, again, resolver>>

NextLicense == ParseLicense

SpecLicense == InitLicense /\ [][NextLicense]_vars

\* ------------------------------------------------------------------------
\* Properties of the license grammar
\* ------------------------------------------------------------------------

\* The text is a license expression.
IsExpression(s) == s # <<>> /\ \A k \in 1..Len(s) : s[k] \in {"MIT", "JSON", "LicenseRef-x"}

\* The k-th leaf of s is not a concrete SPDX id that is OSI-approved.
LeafFails(s, k) == s[k] # "MIT"

\* Where the first failing leaf of s is, or one past the end of s.
FirstFailing(s) == FirstIn({k \in 1..Len(s) : LeafFails(s, k)}, s)

\* C22: License::from_str succeeds exactly when the text parses as an
\* expression and every leaf of it is a concrete SPDX id that is
\* OSI-approved.  Otherwise a text that does not parse fails with the
\* parser's error, and in a text that parses the first failing leaf, in the
\* parser's enumeration order, decides: ContainsReferencer if it has no
\* concrete id, NotOSIApproved if its id is not OSI-approved, whatever the
\* leaves after it are.
C22_LicenseFirstFailingLeaf ==
    output # Pending =>
        /\ output.tag = "Ok" <=> (IsExpression(input) /\ FirstFailing(input) > Len(input))
        /\ output.tag = "Ok" => output.val.expr.requirements = input
        /\ ~IsExpression(input) =>
              output = [tag |-> "Err", err |-> "Expression", source |-> ParseErr("ParseError")]
        /\ (IsExpression(input) /\ FirstFailing(input) <= Len(input)) =>
              IF input[FirstFailing(input)] = "LicenseRef-x"
              THEN output = ParseErr("ContainsReferencer")
              ELSE output = ParseErr("NotOSIApproved")

\* A text whose second leaf is an id that is not OSI-approved and whose third
\* leaf is a referencer was rejected for the second leaf.
C22_Witness ==
    /\ input = <<"MIT", "JSON", "LicenseRef-x">>
    /\ output = ParseErr("NotOSIApproved")

\* ------------------------------------------------------------------------
\* project_root on a directory given with all its entries
\* ------------------------------------------------------------------------

\* The filesystems that extend f by directory d with all its entries and,
\* when the src branch of project_root(d, h, _) can be taken, by the
\* directory that branch lists, with all its entries.
Extensions(f, a, d, h) ==
    LET q == SrcDir(d, Entry("src", "dir"))
        left == MaxEntries - EntriesRead(f)
        D == DirContents(a, d, RootEntries, left)
        Plain == {c \in D : ~(HasSrcDir(c) /\ Contains(h, SRC_FOLDER))}
        Nested == {c \in D : HasSrcDir(c) /\ Contains(h, SRC_FOLDER)}
    IN  {f @@ (d :> c) : c \in Plain}
        \cup
        UNION { {f @@ (d :> c) @@ (q :> c2) :
                   c2 \in DirContents(TRUE, q, SrcEntries, left - Len(c.ls))} :
                c \in Nested }

\* project_root(path, heuristics, first) called on a directory whose entries
\* are all known, those the loop does not get to included.
ScanWhole ==
    /\ pc = "scan"
    /\ \E f \in Extensions(fs, abs, path, heuristics) :
          LET returned == ProjectRoot(f, path, heuristics, first) IN
          /\ fs' = f
          /\ reads' = reads \o returned.reads
          /\ hits' = Append(hits, returned.hits)
          /\ hres' = returned.r
    /\ pc' = "ret"
    /\ UNCHANGED <<op, abs, path, heuristics, first, idx, files, result, parser>>

NextDirectory == HeurProjectRoot \/ ScanWhole \/ ReturnHeuristics

SpecDirectory == Init /\ [][NextDirectory]_vars

\* ------------------------------------------------------------------------
\* Properties of project_root
\* ------------------------------------------------------------------------

\* What the k-th entry of directory p matches, if anything.
MatchOf(p, k) == PotentialRootDirEntry(fs, p, fs[p].ls[k], heuristics).r

Matches(p, k) == MatchOf(p, k).tag = "Ok" /\ MatchOf(p, k).val.some

\* The entries of directory p that match.
Matching(p) == {k \in 1..Len(fs[p].ls) : Matches(p, k)}

\* Listing directory p and looking at its entries meets no failure, in
\* whatever order the entries come.
NoIoError(p) ==
    /\ fs[p].ok
    /\ \A k \in 1..Len(fs[p].ls) : MatchOf(p, k).tag = "Ok"

\* The listings of the entries of ls in every order.
Orders(ls) == {[k \in 1..Len(ls) |-> ls[pm[k]]] : pm \in Permutations(1..Len(ls))}

\* C23: project_root(dir, wanted, first).  With first = true the result is
\* empty, when no entry matches, or else the flag set of the one heuristic
\* matched by the first matching entry in listing order.  With first = false
\* and no I/O error the result is the union of the flag sets of every wanted
\* marker present in dir, also when the scan stops early on a result equal to
\* wanted, and is the same for every order in which the entries of dir are
\* listed.
C23_ProjectRootResult ==
    (op = "heuristics::project_root" /\ Returned /\ hres.tag = "Ok") =>
        /\ first =>
              IF Matching(path) = {}
              THEN hres.val = {}
              ELSE LET k == CHOOSE n \in Matching(path) : \A m \in Matching(path) : n <= m
                   IN  hres.val = Into(MatchOf(path, k).val.v)
        /\ (~first /\ NoIoError(path)) =>
              /\ hres.val = UNION {Into(MatchOf(path, k).val.v) : k \in Matching(path)}
              /\ \A ls \in Orders(fs[path].ls) :
                    ProjectRoot([fs EXCEPT ![path] = Readable(ls)], path, heuristics, first).r
                       = hres

\* A scan for main.typ and typst.toml stopped at the second of three matching
\* entries, its result being equal to wanted.
C23_Witness ==
    /\ op = "heuristics::project_root"
    /\ pc = "done"
    /\ ~first
    /\ heuristics = MAIN_FILE \cup MANIFEST_FILE
    /\ Observed(path)
    /\ fs[path] = Readable(<<Entry("main.typ", "file"), Entry("typst.toml", "file"),
                             Entry("lib.typ", "file")>>)
    /\ Len(hits[1]) = 2
    /\ result = Ok(MAIN_FILE \cup MANIFEST_FILE)

\* ------------------------------------------------------------------------
\* Properties of the reads of the root resolver
\* ------------------------------------------------------------------------

\* p is the directory src directly inside an ancestor of the start path.
IsSrcOfAncestor(p) == \E i \in DOMAIN Chain : p = Join(Chain[i], "src")

\* C24: root resolution only reads, and descends no further than one level:
\* every directory it lists is an ancestor of the start path or, when wanted
\* includes SRC_FOLDER, the directory src directly inside such an ancestor;
\* without SRC_FOLDER no subdirectory is listed at all.  (The only
\* filesystem calls of the source are fs::read_dir and fs::read_to_string:
\* no action changes a directory.)
C24_ListsOnlyAncestorsAndSrc ==
    \A k \in 1..Len(reads) :
        \/ IsAncestor(reads[k])
        \/ Contains(heuristics, SRC_FOLDER) /\ IsSrcOfAncestor(reads[k])

\* C25: the set project_root returns, and hence the matched set
\* try_find_project_root returns, is a subset of wanted for every directory,
\* every wanted and either value of first: no flag is reported that the
\* caller did not request, also when the match comes from the src branch.
C25_MatchedWithinWanted ==
    /\ (op = "heuristics::project_root" /\ Returned /\ hres.tag = "Ok") =>
          hres.val \subseteq heuristics
    /\ (op = "heuristics::try_find_project_root" /\ Returned /\ hres.tag = "Ok"
          /\ hres.val.some) =>
          hres.val.v.matched \subseteq heuristics

\* ------------------------------------------------------------------------
\* try_find_project_root on directories given with all their entries
\* ------------------------------------------------------------------------

\* One iteration of the loop over path.ancestors() (lines 120-125), the
\* ancestor being known with all its entries.
ExamineWhole ==
    /\ pc = "walk"
    /\ idx <= Len(Ancestors(path))
    /\ LET ancestor == Ancestors(path)[idx] IN
       \E f \in Extensions(fs, abs, ancestor, heuristics) :
          LET returned == ProjectRoot(f, ancestor, heuristics, first)
              it == Iteration(ancestor, returned.r, heuristics)
          IN  /\ fs' = f
              /\ reads' = reads \o returned.reads
              /\ hits' = Append(hits, returned.hits)
              /\ IF it.stop
                 THEN /\ hres' = it.ret
                      /\ pc' = "ret"
                      /\ idx' = idx
                 ELSE /\ hres' = hres
                      /\ pc' = pc
                      /\ idx' = idx + 1
    /\ UNCHANGED <<op, abs, path, heuristics, first, files, result, parser>>

NextWalk == HeurTryFindProjectRoot \/ ExamineWhole \/ Exhausted \/ ReturnHeuristics

SpecWalk == Init /\ [][NextWalk]_vars

\* ------------------------------------------------------------------------
\* Properties of the early-exit flag
\* ------------------------------------------------------------------------

\* What try_find_project_root(path, heuristics, any) returns on the
\* directories known, from the i-th ancestor on.  A walk that goes on into a
\* directory of which nothing is known has no result.
RECURSIVE WalkFrom(_, _)
WalkFrom(i, any) ==
    IF i > Len(Chain) THEN Ok(None)
    ELSE IF ~Observed(Chain[i]) THEN [tag |-> "Unknown"]
    ELSE LET it == Iteration(Chain[i], ProjectRoot(fs, Chain[i], heuristics, any).r, heuristics)
         IN  IF it.stop THEN it.ret ELSE WalkFrom(i + 1, any)

\* r is a result with a root.
Found(r) == r.tag = "Ok" /\ r.val.some

\* C26: absent I/O errors the early-exit flag does not change which root is
\* found: try_find_project_root(path, wanted, true) and
\* try_find_project_root(path, wanted, false) return the same ancestor, or
\* both None, and the matched set returned with the flag true is a non-empty
\* subset of the set returned with the flag false.
C26_EarlyExitSameRoot ==
    (op = "heuristics::try_find_project_root" /\ Returned) =>
        LET eager == IF first THEN hres ELSE WalkFrom(1, TRUE)
            full == IF first THEN WalkFrom(1, FALSE) ELSE hres
        IN  (eager.tag = "Ok" /\ full.tag = "Ok") =>
                /\ Found(eager) <=> Found(full)
                /\ Found(eager) =>
                      /\ eager.val.v.root = full.val.v.root
                      /\ eager.val.v.matched # {}
                      /\ eager.val.v.matched \subseteq full.val.v.matched

\* A walk with early exit matched main.typ alone in the parent of the start
\* directory, where the walk without early exit matches typst.toml as well.
C26_Witness ==
    /\ op = "heuristics::try_find_project_root"
    /\ pc = "done"
    /\ first
    /\ Len(Chain) > 1
    /\ result = Ok(Some([root |-> Chain[2], matched |-> MAIN_FILE]))
    /\ WalkFrom(1, FALSE) = Ok(Some([root |-> Chain[2], matched |-> MAIN_FILE \cup MANIFEST_FILE]))

\* ------------------------------------------------------------------------
\* try_find_project_root as a call that runs to its end
\* ------------------------------------------------------------------------

NextFind == HeurTryFindProjectRoot \/ Examine \/ Exhausted \/ ReturnHeuristics

\* The position of a call that has not returned moves on: to the next
\* ancestor, to the return of the walk, or to the return of the call.
Advance ==
    /\ pc \in {"walk", "ret"}
    /\ pc' \in {"walk", "ret", "done"}
    /\ idx' \in {idx, idx + 1}
    /\ (pc' # pc \/ idx' # idx)

\* The function is synchronous: once called, it takes its steps one after
\* the other, none of them waiting for anything but the filesystem's answer.
SpecFind == Init /\ [][NextFind]_vars /\ WF_<<pc, idx>>(Advance)

\* ------------------------------------------------------------------------
\* Properties of the walk as a whole
\* ------------------------------------------------------------------------

\* p lies on the literal start path: it is the path or one of its prefixes.
OnPath(p) == IsPrefix(p, path)

\* p is the directory the src branch lists for a directory on the path.
BelowPath(p) ==
    /\ Len(p) >= 2
    /\ OnPath(SubSeq(p, 1, Len(p) - 2))
    /\ SubSeq(p, Len(p) - 1, Len(p)) = <<"src", "src">>

\* Examine has a step to take: the one in which the ancestor cannot be
\* listed is always among those the filesystem can answer with.
CanExamine ==
    (fs @@ (Chain[idx] :> Unreadable)) \in Observe(fs, abs, Chain[idx], heuristics, first)

\* What holds of a walk at each of its steps: a call that has not returned
\* has a step to take; the ancestors were listed once each, nearest first;
\* every directory listed lies on the literal path or is the one the src
\* branch lists for such a directory; the walk ends with a failure, None
\* after the whole chain, or the ancestor listed last.
WalkBounded ==
    /\ pc = "ret" => ENABLED ReturnHeuristics
    /\ (pc = "walk" /\ idx > Len(Chain)) => ENABLED Exhausted
    /\ (pc = "walk" /\ idx <= Len(Chain)) => CanExamine
    /\ ChainReads = SubSeq(Chain, 1, Len(ChainReads))
    /\ idx <= Len(Chain) + 1
    /\ \A k \in 1..Len(reads) : OnPath(reads[k]) \/ BelowPath(reads[k])
    /\ Returned =>
          \/ hres.tag = "Err"
          \/ hres = Ok(None) /\ ChainReads = Chain
          \/ Found(hres) /\ OnPath(hres.val.v.root) /\ hres.val.v.root = Chain[Len(ChainReads)]

\* C27: try_find_project_root terminates for every start path and every
\* filesystem.  It lists each directory of the literal ancestor chain of the
\* path at most once, from nearest to farthest, and ends with a match, an
\* I/O error or None after at most one listing per element of the chain.
\* Every directory it examines lies on the literal path, also for a relative
\* path: no directory above the literal prefix is examined, and the root
\* returned is never one.
C27_WalkTerminates ==
    /\ [](op = "heuristics::try_find_project_root" => WalkBounded)
    /\ (pc = "walk") ~> (pc = "done")

\* The walk from a relative path of one component listed that directory, then
\* the empty path, and ended with the failure of that listing.
C27_Witness ==
    /\ op = "heuristics::try_find_project_root"
    /\ pc = "done"
    /\ ~abs
    /\ path = <<"d">>
    /\ reads = << <<"d">>, <<>> >>
    /\ result = IoErr("read_dir", <<>>)

====
